---- MODULE Spec2Model ----
(***************************************************************************)
(* The persistence schema of reviews/models.py: User, Category, Genre,     *)
(* Title, Review and Comment rows, the field validators, the unique        *)
(* constraints and the on_delete rules of the foreign keys.  A write is    *)
(* a save(): the INSERT/UPDATE, on which the database enforces the unique  *)
(* indexes and the foreign keys.  A caller may run full_clean() first      *)
(* (clean = TRUE): the field validators, the choices and the unique        *)
(* checks; save() itself runs none of them.  A delete collects the rows    *)
(* the on_delete rules reach and removes them.                             *)
(***************************************************************************)
EXTENDS Integers, FiniteSets, Sequences, TLC

VARIABLES users, categories, genres, titles, reviews, comments,
          seq, currentYear, lastOp, writers

vars == <<users, categories, genres, titles, reviews, comments,
          seq, currentYear, lastOp, writers>>

tables == <<users, categories, genres, titles, reviews, comments>>

----------------------------------------------------------------------------
(* Bounds of the model. *)

MaxUsers == 2
MaxCategories == 2
MaxGenres == 1
MaxTitles == 2
MaxReviews == 2
MaxComments == 2
FirstYear == 2025
LastYear == 2026

UserIds == 1..MaxUsers
CategoryIds == 1..MaxCategories
GenreIds == 1..MaxGenres
TitleIds == 1..MaxTitles
ReviewIds == 1..MaxReviews
CommentIds == 1..MaxComments

Usernames == {"ann", "bob"}
Emails == {"ann@x.com", "bob@x.com"}
Slugs == {"book", "film"}
Texts == {"good"}
Writers == {"w1", "w2"}

----------------------------------------------------------------------------
(* Constants of the source. *)

USER == "user"
MODERATOR == "moderator"
ADMIN == "admin"
ROLES == {USER, MODERATOR, ADMIN}

MaxScore == 10
MinScore == 1

ValidationError == "ValidationError"
UniquenessError == "UniquenessError"
IntegrityError == "IntegrityError"

ScoreInputs == {MinScore - 1, MinScore, MaxScore, MaxScore + 1}
YearInputs == FirstYear..(LastYear + 1)

----------------------------------------------------------------------------
(* Row lookups. *)

Ids(rows) == {r.id : r \in rows}

Row(rows, i) == CHOOSE r \in rows : r.id = i

----------------------------------------------------------------------------
(* The outcome of the last operation: its name, the primary key it acted  *)
(* on, the errors it raised, the Title rows its delete updated, the Review *)
(* and Comment rows its delete collected, and the value it returned.       *)

Op(name, id, errs, ts, rs, cs, val) ==
    [op |-> name, id |-> id, errors |-> errs,
     titles |-> ts, reviews |-> rs, comments |-> cs, value |-> val]

Request(pc, op, req, errs, id) ==
    [pc |-> pc, op |-> op, req |-> req, errors |-> errs, id |-> id]

(* The errors of full_clean(). *)
Errors(invalid, duplicate) ==
    (IF invalid THEN {ValidationError} ELSE {})
        \cup (IF duplicate THEN {UniquenessError} ELSE {})

(* The errors of the INSERT/UPDATE: a foreign key without its row, a       *)
(* unique index already holding the key.                                   *)
DbErrors(dangling, duplicate) ==
    (IF dangling THEN {IntegrityError} ELSE {})
        \cup (IF duplicate THEN {UniquenessError} ELSE {})

(* The errors of a write: those of full_clean() when the caller runs it    *)
(* and it fails, else those of the INSERT/UPDATE.                          *)
WriteErrors(clean, cleanErrs, saveErrs) ==
    IF clean /\ cleanErrs # {} THEN cleanErrs ELSE saveErrs

----------------------------------------------------------------------------
(* User *)

UsernameNotUnique(us, name, self) == TRUE

UsernameUnique(us, name, self) ==
    \A u \in us : u.id # self => u.username # name

EmailNotUnique(us, email, self) == TRUE

EmailUnique(us, email, self) ==
    \A u \in us : u.id # self => u.email # email

RoleChoice(role) == role \in ROLES

is_moderator(u) == u.role = MODERATOR

AdminByRoleOnly(u) == u.role = ADMIN

is_admin(u) == u.role = ADMIN \/ u.is_superuser

UserErrors(name, email, self) ==
    Errors(FALSE, ~UsernameUnique(users, name, self)
                    \/ ~EmailUnique(users, email, self))

NewUser(id, name, email) ==
    [id |-> id, username |-> name, email |-> email,
     role |-> USER, is_superuser |-> FALSE]

CreateUser(name, email) ==
    /\ seq.user <= MaxUsers
    /\ LET errs == UserErrors(name, email, seq.user)
       IN /\ lastOp' = Op("CreateUser", seq.user, errs, {}, {}, {}, <<>>)
          /\ IF errs = {}
                THEN /\ users' = users \cup {NewUser(seq.user, name, email)}
                     /\ seq' = [seq EXCEPT !.user = @ + 1]
                ELSE UNCHANGED <<users, seq>>
    /\ UNCHANGED <<categories, genres, titles, reviews, comments,
                   currentYear, writers>>

RoleInputs == ROLES \cup {"owner"}

SetRole(u, role, clean) ==
    /\ u \in Ids(users)
    /\ LET old == Row(users, u)
           errs == WriteErrors(clean, Errors(~RoleChoice(role), FALSE), {})
       IN /\ lastOp' = Op("SetRole", u, errs, {}, {}, {}, <<>>)
          /\ IF errs = {}
                THEN users' = (users \ {old}) \cup {[old EXCEPT !.role = role]}
                ELSE UNCHANGED users
    /\ UNCHANGED <<categories, genres, titles, reviews, comments,
                   seq, currentYear, writers>>

SetSuperuser(u, flag) ==
    /\ u \in Ids(users)
    /\ LET old == Row(users, u)
       IN users' = (users \ {old}) \cup {[old EXCEPT !.is_superuser = flag]}
    /\ lastOp' = Op("SetSuperuser", u, {}, {}, {}, {}, <<>>)
    /\ UNCHANGED <<categories, genres, titles, reviews, comments,
                   seq, currentYear, writers>>

(* Reading the two properties of a stored user. *)
ReadRoles(u) ==
    /\ u \in Ids(users)
    /\ LET row == Row(users, u)
       IN lastOp' = Op("ReadRoles", u, {}, {}, {}, {},
                       <<is_moderator(row), is_admin(row)>>)
    /\ UNCHANGED <<users, categories, genres, titles, reviews, comments,
                   seq, currentYear, writers>>

----------------------------------------------------------------------------
(* Category and Genre *)

SlugUnique(rows, slug, self) ==
    \A r \in rows : r.id # self => r.slug # slug

CreateCategory(slug) ==
    /\ seq.category <= MaxCategories
    /\ LET errs == Errors(FALSE, ~SlugUnique(categories, slug, seq.category))
       IN /\ lastOp' = Op("CreateCategory", seq.category, errs, {}, {}, {}, <<>>)
          /\ IF errs = {}
                THEN /\ categories' = categories
                            \cup {[id |-> seq.category, slug |-> slug]}
                     /\ seq' = [seq EXCEPT !.category = @ + 1]
                ELSE UNCHANGED <<categories, seq>>
    /\ UNCHANGED <<users, genres, titles, reviews, comments,
                   currentYear, writers>>

CreateGenre(slug) ==
    /\ seq.genre <= MaxGenres
    /\ LET errs == Errors(FALSE, ~SlugUnique(genres, slug, seq.genre))
       IN /\ lastOp' = Op("CreateGenre", seq.genre, errs, {}, {}, {}, <<>>)
          /\ IF errs = {}
                THEN /\ genres' = genres \cup {[id |-> seq.genre, slug |-> slug]}
                     /\ seq' = [seq EXCEPT !.genre = @ + 1]
                ELSE UNCHANGED <<genres, seq>>
    /\ UNCHANGED <<users, categories, titles, reviews, comments,
                   currentYear, writers>>

----------------------------------------------------------------------------
(* Title *)

validate_year(year) == year <= currentYear

(* The calendar: a new year begins. *)
Tick ==
    /\ currentYear < LastYear
    /\ currentYear' = currentYear + 1
    /\ lastOp' = Op("Tick", 0, {}, {}, {}, {}, <<>>)
    /\ UNCHANGED <<users, categories, genres, titles, reviews, comments,
                   seq, writers>>

YearValidators(year) == validate_year(year)

TitleErrors(year, category) ==
    Errors(~YearValidators(year) \/ ~(category \subseteq Ids(categories)), FALSE)

Categories == {c \in SUBSET CategoryIds : Cardinality(c) <= 1}

TitleSaveErrors(category) ==
    DbErrors(~(category \subseteq Ids(categories)), FALSE)

CreateTitle(year, category, clean) ==
    /\ seq.title <= MaxTitles
    /\ LET errs == WriteErrors(clean, TitleErrors(year, category),
                               TitleSaveErrors(category))
       IN /\ lastOp' = Op("CreateTitle", seq.title, errs, {}, {}, {}, <<>>)
          /\ IF errs = {}
                THEN /\ titles' = titles \cup
                            {[id |-> seq.title, name |-> "Dune", year |-> year,
                              description |-> "novel", category |-> category,
                              genre |-> {}]}
                     /\ seq' = [seq EXCEPT !.title = @ + 1]
                ELSE UNCHANGED <<titles, seq>>
    /\ UNCHANGED <<users, categories, genres, reviews, comments,
                   currentYear, writers>>

UpdateTitle(t, year, category, clean) ==
    /\ t \in Ids(titles)
    /\ LET errs == WriteErrors(clean, TitleErrors(year, category),
                               TitleSaveErrors(category))
           old == Row(titles, t)
       IN /\ lastOp' = Op("UpdateTitle", t, errs, {}, {}, {}, <<>>)
          /\ IF errs = {}
                THEN titles' = (titles \ {old}) \cup
                        {[old EXCEPT !.year = year, !.category = category]}
                ELSE UNCHANGED titles
    /\ UNCHANGED <<users, categories, genres, reviews, comments,
                   seq, currentYear, writers>>

AddGenre(t, g) ==
    /\ t \in Ids(titles)
    /\ g \in Ids(genres)
    /\ LET old == Row(titles, t)
       IN titles' = (titles \ {old}) \cup {[old EXCEPT !.genre = @ \cup {g}]}
    /\ lastOp' = Op("AddGenre", t, {}, {}, {}, {}, <<>>)
    /\ UNCHANGED <<users, categories, genres, reviews, comments,
                   seq, currentYear, writers>>

----------------------------------------------------------------------------
(* Review *)

ScoreValidators(score) == score <= MaxScore /\ score >= MinScore

NoUniqueConstraint(rs, author, title, self) == TRUE

unique_author_title(rs, author, title, self) ==
    \A r \in rs : r.id # self => ~(r.author = author /\ r.title = title)

(* full_clean(): the field validators and the existence of the referenced  *)
(* rows, then the unique checks, which skip a constraint over a field that *)
(* already failed; every error found is reported.                          *)
ReviewErrors(author, title, score, self) ==
    LET dangling == author \notin Ids(users) \/ title \notin Ids(titles)
    IN Errors(~ScoreValidators(score) \/ dangling,
              ~dangling /\ ~unique_author_title(reviews, author, title, self))

(* save(): the unique index and the foreign keys of the table. *)
ReviewSaveErrors(author, title, self) ==
    LET dangling == author \notin Ids(users) \/ title \notin Ids(titles)
    IN DbErrors(dangling,
                ~dangling /\ ~unique_author_title(reviews, author, title, self))

NewReview(id, author, title, score, text) ==
    [id |-> id, author |-> author, title |-> title,
     score |-> score, text |-> text]

CreateReview(author, title, score, text, clean) ==
    /\ seq.review <= MaxReviews
    /\ LET errs == WriteErrors(clean,
                               ReviewErrors(author, title, score, seq.review),
                               ReviewSaveErrors(author, title, seq.review))
       IN /\ lastOp' = Op("CreateReview", seq.review, errs, {}, {}, {}, <<>>)
          /\ IF errs = {}
                THEN /\ reviews' = reviews \cup
                            {NewReview(seq.review, author, title, score, text)}
                     /\ seq' = [seq EXCEPT !.review = @ + 1]
                ELSE UNCHANGED <<reviews, seq>>
    /\ UNCHANGED <<users, categories, genres, titles, comments,
                   currentYear, writers>>

(* An update of the score and the text; the author and the Title stay. *)
UpdateReview(r, score, text, clean) ==
    /\ r \in Ids(reviews)
    /\ LET old == Row(reviews, r)
           errs == WriteErrors(clean,
                               ReviewErrors(old.author, old.title, score, r),
                               ReviewSaveErrors(old.author, old.title, r))
       IN /\ lastOp' = Op("UpdateReview", r, errs, {}, {}, {}, <<>>)
          /\ IF errs = {}
                THEN reviews' = (reviews \ {old}) \cup
                        {[old EXCEPT !.score = score, !.text = text]}
                ELSE UNCHANGED reviews
    /\ UNCHANGED <<users, categories, genres, titles, comments,
                   seq, currentYear, writers>>

----------------------------------------------------------------------------
(* Comment *)

CommentErrors(author, review) ==
    Errors(author \notin Ids(users) \/ review \notin Ids(reviews), FALSE)

CommentSaveErrors(author, review) ==
    DbErrors(author \notin Ids(users) \/ review \notin Ids(reviews), FALSE)

CreateComment(author, review, text, clean) ==
    /\ seq.comment <= MaxComments
    /\ LET errs == WriteErrors(clean, CommentErrors(author, review),
                               CommentSaveErrors(author, review))
       IN /\ lastOp' = Op("CreateComment", seq.comment, errs, {}, {}, {}, <<>>)
          /\ IF errs = {}
                THEN /\ comments' = comments \cup
                            {[id |-> seq.comment, author |-> author,
                              review |-> review, text |-> text]}
                     /\ seq' = [seq EXCEPT !.comment = @ + 1]
                ELSE UNCHANGED <<comments, seq>>
    /\ UNCHANGED <<users, categories, genres, titles, reviews,
                   currentYear, writers>>

----------------------------------------------------------------------------
(* on_delete: the rows a delete reaches through each foreign key. *)

Review_author_on_delete(us) == {r \in reviews : r.author \in us}

ReviewTitleDoNothing(ts) == {}

Review_title_on_delete(ts) == {r \in reviews : r.title \in ts}

CommentAuthorDoNothing(us) == {}

Comment_author_on_delete(us) == {c \in comments : c.author \in us}

CommentReviewDoNothing(rs) == {}

Comment_review_on_delete(rs) == {c \in comments : c.review \in Ids(rs)}

Title_category_on_delete(t, cs) ==
    IF t.category \subseteq cs THEN [t EXCEPT !.category = {}] ELSE t

Title_genre_on_delete(t, gs) == [t EXCEPT !.genre = @ \ gs]

DeleteUser(u) ==
    /\ u \in Ids(users)
    /\ LET rs == Review_author_on_delete({u})
           cs == Comment_author_on_delete({u}) \cup Comment_review_on_delete(rs)
       IN /\ users' = users \ {Row(users, u)}
          /\ reviews' = reviews \ rs
          /\ comments' = comments \ cs
          /\ lastOp' = Op("DeleteUser", u, {}, {}, rs, cs, <<>>)
    /\ UNCHANGED <<categories, genres, titles, seq, currentYear, writers>>

DeleteTitle(t) ==
    /\ t \in Ids(titles)
    /\ LET rs == Review_title_on_delete({t})
           cs == Comment_review_on_delete(rs)
       IN /\ titles' = titles \ {Row(titles, t)}
          /\ reviews' = reviews \ rs
          /\ comments' = comments \ cs
          /\ lastOp' = Op("DeleteTitle", t, {}, {}, rs, cs, <<>>)
    /\ UNCHANGED <<users, categories, genres, seq, currentYear, writers>>

DeleteReview(r) ==
    /\ r \in Ids(reviews)
    /\ LET rs == {Row(reviews, r)}
           cs == Comment_review_on_delete(rs)
       IN /\ reviews' = reviews \ rs
          /\ comments' = comments \ cs
          /\ lastOp' = Op("DeleteReview", r, {}, {}, rs, cs, <<>>)
    /\ UNCHANGED <<users, categories, genres, titles, seq, currentYear, writers>>

DeleteComment(c) ==
    /\ c \in Ids(comments)
    /\ LET cs == {Row(comments, c)}
       IN /\ comments' = comments \ cs
          /\ lastOp' = Op("DeleteComment", c, {}, {}, {}, cs, <<>>)
    /\ UNCHANGED <<users, categories, genres, titles, reviews,
                   seq, currentYear, writers>>

DeleteCategoryCascade(c) ==
    /\ c \in Ids(categories)
    /\ LET ts == {t \in titles : t.category = {c}}
           rs == Review_title_on_delete(Ids(ts))
           cs == Comment_review_on_delete(rs)
       IN /\ categories' = categories \ {Row(categories, c)}
          /\ titles' = titles \ ts
          /\ reviews' = reviews \ rs
          /\ comments' = comments \ cs
          /\ lastOp' = Op("DeleteCategory", c, {}, ts, rs, cs, <<>>)
    /\ UNCHANGED <<users, genres, seq, currentYear, writers>>

DeleteCategory(c) ==
    /\ c \in Ids(categories)
    /\ categories' = categories \ {Row(categories, c)}
    /\ titles' = {Title_category_on_delete(t, {c}) : t \in titles}
    /\ lastOp' = Op("DeleteCategory", c, {},
                    {t \in titles : Title_category_on_delete(t, {c}) # t},
                    {}, {}, <<>>)
    /\ UNCHANGED <<users, genres, reviews, comments, seq, currentYear, writers>>

DeleteGenre(g) ==
    /\ g \in Ids(genres)
    /\ genres' = genres \ {Row(genres, g)}
    /\ titles' = {Title_genre_on_delete(t, {g}) : t \in titles}
    /\ lastOp' = Op("DeleteGenre", g, {},
                    {t \in titles : Title_genre_on_delete(t, {g}) # t},
                    {}, {}, <<>>)
    /\ UNCHANGED <<users, categories, reviews, comments, seq, currentYear, writers>>

----------------------------------------------------------------------------
(* The sequential specification: one writer, every operation atomic. *)

Idle == [w \in Writers |-> Request("idle", "", <<>>, {}, 0)]

Init ==
    /\ users = {}
    /\ categories = {}
    /\ genres = {}
    /\ titles = {}
    /\ reviews = {}
    /\ comments = {}
    /\ seq = [user |-> 1, category |-> 1, genre |-> 1,
              title |-> 1, review |-> 1, comment |-> 1]
    /\ currentYear = FirstYear
    /\ lastOp = Op("init", 0, {}, {}, {}, {}, <<>>)
    /\ writers = Idle

Accounts == {<<"ann", "ann@x.com">>, <<"bob", "bob@x.com">>}

(* Spec: all six tables and every delete, with one Category and one Genre; *)
(* the field values written are ones the on_delete rules do not read.      *)
Next ==
    \/ \E a \in Accounts : CreateUser(a[1], a[2])
    \/ seq.category = 1 /\ CreateCategory("book")
    \/ CreateGenre("novel")
    \/ \E c \in Categories, k \in BOOLEAN : CreateTitle(currentYear, c, k)
    \/ \E t \in TitleIds, g \in GenreIds : AddGenre(t, g)
    \/ \E a \in UserIds, t \in TitleIds, k \in BOOLEAN :
            CreateReview(a, t, MaxScore, "good", k)
    \/ \E a \in UserIds, r \in ReviewIds, k \in BOOLEAN :
            CreateComment(a, r, "agree", k)
    \/ \E u \in UserIds : DeleteUser(u)
    \/ \E t \in TitleIds : DeleteTitle(t)
    \/ \E r \in ReviewIds : DeleteReview(r)
    \/ \E c \in CommentIds : DeleteComment(c)
    \/ \E c \in CategoryIds : DeleteCategory(c)
    \/ \E g \in GenreIds : DeleteGenre(g)

Spec == Init /\ [][Next]_vars

(* SpecCascade: Users, Titles, Reviews and Comments with every delete. *)
NextCascade ==
    \/ \E a \in Accounts : CreateUser(a[1], a[2])
    \/ CreateTitle(currentYear, {}, TRUE)
    \/ \E a \in UserIds, t \in TitleIds, k \in BOOLEAN :
            CreateReview(a, t, MaxScore, "good", k)
    \/ \E a \in UserIds, r \in ReviewIds, k \in BOOLEAN :
            CreateComment(a, r, "agree", k)
    \/ \E u \in UserIds : DeleteUser(u)
    \/ \E t \in TitleIds : DeleteTitle(t)
    \/ \E r \in ReviewIds : DeleteReview(r)
    \/ \E c \in CommentIds : DeleteComment(c)

SpecCascade == Init /\ [][NextCascade]_vars

(* SpecCatalog: Categories, Genres and Titles with every slug, and the     *)
(* Reviews and Comments of one user on those Titles.                       *)
NextCatalog ==
    \/ \E slug \in Slugs : CreateCategory(slug)
    \/ \E slug \in Slugs : CreateGenre(slug)
    \/ \E c \in Categories, k \in BOOLEAN : CreateTitle(currentYear, c, k)
    \/ \E t \in TitleIds, g \in GenreIds : AddGenre(t, g)
    \/ CreateUser("ann", "ann@x.com")
    \/ \E a \in UserIds, t \in TitleIds, k \in BOOLEAN :
            CreateReview(a, t, MaxScore, "good", k)
    \/ \E a \in UserIds, r \in ReviewIds, k \in BOOLEAN :
            CreateComment(a, r, "agree", k)
    \/ \E c \in CategoryIds : DeleteCategory(c)
    \/ \E g \in GenreIds : DeleteGenre(g)

SpecCatalog == Init /\ [][NextCatalog]_vars

(* SpecUsers: the User table alone, with every username, email, role and   *)
(* superuser flag.                                                         *)
NextUsers ==
    \/ \E name \in Usernames, email \in Emails : CreateUser(name, email)
    \/ \E u \in UserIds, role \in RoleInputs, k \in BOOLEAN :
            SetRole(u, role, k)
    \/ \E u \in UserIds, flag \in BOOLEAN : SetSuperuser(u, flag)
    \/ \E u \in UserIds : ReadRoles(u)
    \/ \E u \in UserIds : DeleteUser(u)

SpecUsers == Init /\ [][NextUsers]_vars

(* SpecReviews: creates and updates of Reviews with every score. *)
NextReviews ==
    \/ \E a \in Accounts : CreateUser(a[1], a[2])
    \/ CreateTitle(currentYear, {}, TRUE)
    \/ \E a \in UserIds, t \in TitleIds, s \in ScoreInputs, x \in Texts,
            k \in BOOLEAN : CreateReview(a, t, s, x, k)
    \/ \E r \in ReviewIds, s \in ScoreInputs, x \in Texts, k \in BOOLEAN :
            UpdateReview(r, s, x, k)
    \/ \E r \in ReviewIds : DeleteReview(r)

SpecReviews == Init /\ [][NextReviews]_vars

(* SpecTitles: writes of Titles with every year, while the calendar moves. *)
NextTitles ==
    \/ \E slug \in Slugs : CreateCategory(slug)
    \/ \E y \in YearInputs, c \in Categories, k \in BOOLEAN :
            CreateTitle(y, c, k)
    \/ \E t \in TitleIds, y \in YearInputs, c \in Categories, k \in BOOLEAN :
            UpdateTitle(t, y, c, k)
    \/ \E t \in TitleIds : DeleteTitle(t)
    \/ \E c \in CategoryIds : DeleteCategory(c)
    \/ Tick

SpecTitles == Init /\ [][NextTitles]_vars

----------------------------------------------------------------------------
(* Concurrent writers.  Each writer runs full_clean() against the rows it  *)
(* sees, and later its INSERT, on which the database checks the unique     *)
(* indexes of the table; other writers may act in between.  A writer keeps *)
(* the request, the errors raised and the primary key of the row stored.   *)

InFlight(op) ==
    Cardinality({w \in Writers : writers[w].pc = "validated"
                                    /\ writers[w].op = op})

BeginCreateUser(w, name, email) ==
    /\ writers[w].pc = "idle"
    /\ seq.user + InFlight("CreateUser") <= MaxUsers
    /\ LET errs == UserErrors(name, email, 0)
       IN writers' = [writers EXCEPT ![w] =
            Request(IF errs = {} THEN "validated" ELSE "done",
                    "CreateUser", <<name, email>>, errs, 0)]
    /\ UNCHANGED <<tables, seq, currentYear, lastOp>>

CommitCreateUser(w) ==
    /\ writers[w].pc = "validated"
    /\ writers[w].op = "CreateUser"
    /\ LET name == writers[w].req[1]
           email == writers[w].req[2]
           errs == UserErrors(name, email, 0)
       IN IF errs = {}
            THEN /\ users' = users \cup {NewUser(seq.user, name, email)}
                 /\ seq' = [seq EXCEPT !.user = @ + 1]
                 /\ writers' = [writers EXCEPT ![w].pc = "done", ![w].id = seq.user]
            ELSE /\ writers' = [writers EXCEPT ![w].pc = "done", ![w].errors = errs]
                 /\ UNCHANGED <<users, seq>>
    /\ UNCHANGED <<categories, genres, titles, reviews, comments,
                   currentYear, lastOp>>

BeginCreateReview(w, author, title, score) ==
    /\ writers[w].pc = "idle"
    /\ seq.review + InFlight("CreateReview") <= MaxReviews
    /\ LET errs == ReviewErrors(author, title, score, 0)
       IN writers' = [writers EXCEPT ![w] =
            Request(IF errs = {} THEN "validated" ELSE "done",
                    "CreateReview", <<author, title, score>>, errs, 0)]
    /\ UNCHANGED <<tables, seq, currentYear, lastOp>>

CommitCreateReview(w) ==
    /\ writers[w].pc = "validated"
    /\ writers[w].op = "CreateReview"
    /\ LET author == writers[w].req[1]
           title == writers[w].req[2]
           score == writers[w].req[3]
           errs == ReviewSaveErrors(author, title, 0)
       IN IF errs = {}
            THEN /\ reviews' = reviews \cup
                        {NewReview(seq.review, author, title, score, "good")}
                 /\ seq' = [seq EXCEPT !.review = @ + 1]
                 /\ writers' = [writers EXCEPT ![w].pc = "done", ![w].id = seq.review]
            ELSE /\ writers' = [writers EXCEPT ![w].pc = "done", ![w].errors = errs]
                 /\ UNCHANGED <<reviews, seq>>
    /\ UNCHANGED <<users, categories, genres, titles, comments,
                   currentYear, lastOp>>

(* The writer returns the outcome to its caller and takes the next request. *)
Return(w) ==
    /\ writers[w].pc = "done"
    /\ writers' = [writers EXCEPT ![w] = Request("idle", "", <<>>, {}, 0)]
    /\ UNCHANGED <<tables, seq, currentYear, lastOp>>

NextConc ==
    \/ \E w \in Writers, name \in Usernames, email \in Emails :
            BeginCreateUser(w, name, email)
    \/ \E w \in Writers : CommitCreateUser(w)
    \/ CreateTitle(currentYear, {}, TRUE)
    \/ \E w \in Writers, a \in UserIds, t \in TitleIds :
            BeginCreateReview(w, a, t, MaxScore)
    \/ \E w \in Writers : CommitCreateReview(w)
    \/ \E w \in Writers : Return(w)

SpecConc == Init /\ [][NextConc]_vars

----------------------------------------------------------------------------
(* Properties. *)

SamePair(r1, r2) == r1.author = r2.author /\ r1.title = r2.title

(* C1: the stored Reviews hold at most one Review per (author, title)      *)
(* pair; a Create Review for a pair that already has a stored Review       *)
(* raises a UniquenessError and leaves the stored Reviews as they were.    *)
C1_OneReviewPerAuthorTitle ==
    [][/\ \A r1, r2 \in reviews' : SamePair(r1, r2) => r1 = r2
       /\ \A a \in UserIds, t \in TitleIds, s \in ScoreInputs, x \in Texts,
             k \in BOOLEAN :
            (/\ lastOp'.op = "CreateReview"
             /\ \E r \in reviews : r.author = a /\ r.title = t
             /\ CreateReview(a, t, s, x, k))
            => (UniquenessError \in lastOp'.errors /\ reviews' = reviews)]_vars

C1_Witness ==
    /\ lastOp.op = "CreateReview"
    /\ UniquenessError \in lastOp.errors
    /\ \E r \in reviews, c \in comments : c.review = r.id

(* C2: every stored Review has a score in 1..10; a create or an update     *)
(* with a score below 1 or above 10 raises a ValidationError and stores    *)
(* nothing, and a create with score 1 or 10 and no other fault is stored.  *)
C2_ScoreInRange ==
    [][/\ \A r \in reviews' : r.score \in 1..10
       /\ \A a \in UserIds, t \in TitleIds, s \in ScoreInputs, x \in Texts,
             k \in BOOLEAN :
            /\ (lastOp'.op = "CreateReview" /\ (s < 1 \/ s > 10)
                    /\ CreateReview(a, t, s, x, k))
                => (ValidationError \in lastOp'.errors /\ reviews' = reviews)
            /\ (lastOp'.op = "CreateReview" /\ s \in {1, 10}
                    /\ a \in Ids(users) /\ t \in Ids(titles)
                    /\ ~(\E r \in reviews : r.author = a /\ r.title = t)
                    /\ CreateReview(a, t, s, x, k))
                => (/\ lastOp'.errors = {}
                    /\ \E r \in reviews' \ reviews :
                          r.score = s /\ r.author = a /\ r.title = t)
       /\ \A r \in ReviewIds, s \in ScoreInputs, x \in Texts, k \in BOOLEAN :
            (lastOp'.op = "UpdateReview" /\ (s < 1 \/ s > 10)
                    /\ UpdateReview(r, s, x, k))
                => (ValidationError \in lastOp'.errors /\ reviews' = reviews)]_vars

(* C3: Delete User(u) removes, in that one operation, every Review and     *)
(* every Comment whose author is u; afterwards no stored Review or Comment *)
(* has author u.                                                           *)
C3_DeleteUserCascade ==
    [][\A u \in UserIds :
        (lastOp'.op = "DeleteUser" /\ lastOp'.id = u)
        => /\ u \notin Ids(users')
           /\ \A r \in reviews' : r.author # u
           /\ \A c \in comments' : c.author # u
           /\ \A r \in reviews : r.author = u => r \in lastOp'.reviews
           /\ \A c \in comments : c.author = u => c \in lastOp'.comments]_vars

C3_Witness ==
    /\ lastOp.op = "DeleteUser"
    /\ lastOp.reviews # {}
    /\ \E c \in lastOp.comments :
          c.author = lastOp.id /\ c.review \notin Ids(lastOp.reviews)

(* C4: Delete Title(t) removes every Review of t and every Comment         *)
(* attached to one of those Reviews, whoever wrote it; the Reviews of      *)
(* other Titles and their Comments stay as they were.                      *)
C4_DeleteTitleCascade ==
    [][\A t \in TitleIds :
        (lastOp'.op = "DeleteTitle" /\ lastOp'.id = t)
        => /\ reviews' = {r \in reviews : r.title # t}
           /\ comments' = {c \in comments :
                             ~\E r \in reviews : r.id = c.review /\ r.title = t}]_vars

C4_Witness ==
    /\ lastOp.op = "DeleteTitle"
    /\ \E r \in lastOp.reviews, c \in lastOp.comments :
          c.review = r.id /\ c.author # r.author
    /\ \E r \in reviews, c \in comments : c.review = r.id

(* C5: Delete Category(c) deletes no Title: every Title keeps its name,    *)
(* year, description and genres, the Titles of c lose their category, the  *)
(* other Titles keep theirs, and Reviews and Comments are untouched.       *)
C5_DeleteCategorySetsNull ==
    [][\A c \in CategoryIds :
        (lastOp'.op = "DeleteCategory" /\ lastOp'.id = c)
        => /\ Ids(titles') = Ids(titles)
           /\ Cardinality(titles') = Cardinality(titles)
           /\ \A t \in titles :
                LET n == Row(titles', t.id)
                IN /\ n.name = t.name
                   /\ n.year = t.year
                   /\ n.description = t.description
                   /\ n.genre = t.genre
                   /\ n.category = IF t.category = {c} THEN {} ELSE t.category
           /\ reviews' = reviews
           /\ comments' = comments]_vars

C5_Witness ==
    /\ lastOp.op = "DeleteCategory"
    /\ \E t \in lastOp.titles :
          /\ t.genre # {}
          /\ \E n \in titles : n.id = t.id /\ n.category = {} /\ n.genre = t.genre
          /\ \E r \in reviews : r.title = t.id /\ \E c \in comments : c.review = r.id
    /\ \E t \in titles : t.category # {}

(* C6: the stored Users have pairwise distinct usernames and pairwise      *)
(* distinct emails; a Create User whose username or email is that of a     *)
(* stored User raises a UniquenessError and leaves the Users as they were. *)
C6_UniqueUsernameEmail ==
    [][/\ \A u1, u2 \in users' :
            u1.id # u2.id => u1.username # u2.username /\ u1.email # u2.email
       /\ \A name \in Usernames, email \in Emails :
            (/\ lastOp'.op = "CreateUser"
             /\ \E u \in users : u.username = name \/ u.email = email
             /\ CreateUser(name, email))
            => (UniquenessError \in lastOp'.errors /\ users' = users)]_vars

C6_Witness ==
    /\ lastOp.op = "CreateUser"
    /\ UniquenessError \in lastOp.errors
    /\ Cardinality(users) = 1

(* C7: reading is_moderator and is_admin of a User changes no row and      *)
(* yields is_moderator = (role is moderator) and is_admin = (role is admin *)
(* or the superuser flag is set), for the role and flag the User has now,  *)
(* whatever string is stored as the role.                                  *)
C7_RolePredicates ==
    [][\A u \in UserIds :
        (lastOp'.op = "ReadRoles" /\ lastOp'.id = u)
        => /\ tables' = tables
           /\ LET row == Row(users, u)
              IN lastOp'.value =
                    <<row.role = "moderator",
                      row.role = "admin" \/ row.is_superuser>>]_vars

C7_Witness ==
    /\ lastOp.op = "ReadRoles"
    /\ lastOp.value = <<TRUE, TRUE>>
    /\ \E u \in users : u.id = lastOp.id /\ u.role = MODERATOR /\ u.is_superuser

(* C8: every stored Title has a year not after the current calendar year;  *)
(* a create or an update with a later year raises a ValidationError and    *)
(* stores nothing; a create with the current year and no category is       *)
(* stored.                                                                 *)
C8_YearNotInFuture ==
    [][/\ \A t \in titles' : t.year <= currentYear'
       /\ \A y \in YearInputs, c \in Categories, k \in BOOLEAN :
            /\ (lastOp'.op = "CreateTitle" /\ y > currentYear
                    /\ CreateTitle(y, c, k))
                => (ValidationError \in lastOp'.errors /\ titles' = titles)
            /\ (lastOp'.op = "CreateTitle" /\ y = currentYear /\ c = {}
                    /\ CreateTitle(y, c, k))
                => (/\ lastOp'.errors = {}
                    /\ \E t \in titles' \ titles :
                          t.year = y /\ t.category = {})
       /\ \A t \in TitleIds, y \in YearInputs, c \in Categories, k \in BOOLEAN :
            (lastOp'.op = "UpdateTitle" /\ y > currentYear
                    /\ UpdateTitle(t, y, c, k))
                => (ValidationError \in lastOp'.errors /\ titles' = titles)]_vars

Collide(w1, w2) ==
    /\ writers[w1].op = writers[w2].op
    /\ IF writers[w1].op = "CreateUser"
         THEN \/ writers[w1].req[1] = writers[w2].req[1]
              \/ writers[w1].req[2] = writers[w2].req[2]
         ELSE /\ writers[w1].req[1] = writers[w2].req[1]
              /\ writers[w1].req[2] = writers[w2].req[2]

Stored(w) ==
    IF writers[w].op = "CreateUser"
      THEN {u \in users : u.username = writers[w].req[1]
                            /\ u.email = writers[w].req[2]
                            /\ u.id = writers[w].id}
      ELSE {r \in reviews : r.author = writers[w].req[1]
                              /\ r.title = writers[w].req[2]
                              /\ r.id = writers[w].id}

Holders(w) ==
    IF writers[w].op = "CreateUser"
      THEN {u \in users : u.username = writers[w].req[1]
                            \/ u.email = writers[w].req[2]}
      ELSE {r \in reviews : r.author = writers[w].req[1]
                              /\ r.title = writers[w].req[2]}

(* C9: of two writers that have finished colliding creates (two Reviews    *)
(* of one (author, title) pair, or two Users sharing a username or an      *)
(* email) and raised no ValidationError, at most one stored its row and    *)
(* every other one raised a UniquenessError and stored nothing, its key    *)
(* being held by a stored row; no interleaving stores rows that break the  *)
(* unique constraints.                                                     *)
C9_AtomicUniqueness ==
    /\ \A r1, r2 \in reviews : SamePair(r1, r2) => r1 = r2
    /\ \A u1, u2 \in users :
          u1.id # u2.id => u1.username # u2.username /\ u1.email # u2.email
    /\ \A w1, w2 \in Writers :
          (w1 # w2 /\ writers[w1].pc = "done" /\ writers[w2].pc = "done"
                /\ Collide(w1, w2)
                /\ ValidationError \notin writers[w1].errors
                /\ ValidationError \notin writers[w2].errors)
          => /\ ~(writers[w1].errors = {} /\ writers[w2].errors = {})
             /\ \A w \in {w1, w2} :
                  IF writers[w].errors = {}
                    THEN Cardinality(Stored(w)) = 1
                    ELSE /\ UniquenessError \in writers[w].errors
                         /\ Stored(w) = {}
                         /\ Holders(w) # {}

C9_Witness ==
    /\ writers["w1"].pc = "done" /\ writers["w2"].pc = "done"
    /\ writers["w1"].op = "CreateReview" /\ Collide("w1", "w2")
    /\ writers["w1"].errors = {UniquenessError}
    /\ writers["w2"].errors = {}
    /\ writers["w1"].id = 0 /\ writers["w2"].id # 0
    /\ Cardinality(reviews) = 1

(* C10: every stored Review references a stored User and a stored Title,   *)
(* every stored Comment a stored User and a stored Review, every Title's   *)
(* category is absent or a stored Category, and every genre of a Title is  *)
(* a stored Genre.                                                         *)
C10_ReferentialIntegrity ==
    /\ \A r \in reviews : r.author \in Ids(users) /\ r.title \in Ids(titles)
    /\ \A c \in comments : c.author \in Ids(users) /\ c.review \in Ids(reviews)
    /\ \A t \in titles :
          t.category \subseteq Ids(categories) /\ t.genre \subseteq Ids(genres)

C10_Witness ==
    /\ lastOp.op = "DeleteUser"
    /\ \E c \in lastOp.comments, r \in lastOp.reviews :
          /\ c.review = r.id
          /\ r.author = lastOp.id
          /\ c.author # lastOp.id
          /\ c.author \in Ids(users)

====
